---- MODULE Spec2Model ----
(***************************************************************************)
(* A model of the activity statistics of the Conduit in-proxy manager:     *)
(* the Swift structs ActivitySeries and ActivityStats and the               *)
(* ConduitManager actor that owns them.                                     *)
(*                                                                          *)
(* Time: a TimeInterval (seconds, Double) is modelled as an integer number  *)
(* of milliseconds; every reading used lies on a 250 ms grid, where the     *)
(* Double arithmetic of the source is exact.                                *)
(* A trap of the Swift runtime (a failed integer conversion, an arithmetic  *)
(* overflow) terminates the process: the model records it in `crashed`     *)
(* and no action is enabled afterwards.                                     *)
(***************************************************************************)
EXTENDS Integers, Sequences, FiniteSets, Bags, TLC

VARIABLES
    series,         \* SpecSeries: one ActivitySeries value
    seriesCall,     \* SpecSeries: the last updateSeries call (inputs, series before)
    activityStats,  \* the ActivityStats value (NoStats: nil)
    crashed,        \* the process was terminated by a runtime trap
    lastCall,       \* SpecStats: the last update() call (inputs, what it did)
    conduitStatus,  \* ConduitManager.conduitStatus
    tunnel,         \* psiphonTunnel / psiphonTunnelListener and the engine behind
                    \* them; session counts the engine's successful starts
    tasks,          \* the Tasks that are not on the actor: waiting for it, or
                    \* suspended in an awaited engine call (a bag: unordered)
    inside,         \* the jobs executing on the ConduitManager actor (a bag)
    snapshot,       \* the last stats the listener was handed; for which tick, read
                    \* at which time and from which stats it was computed; and
                    \* the event the listener sent for it
    budget,         \* how many ticks (or must-upgrade reports) the engine emitted,
                    \* how many calls were made
    listener,       \* ConduitManager.Listener (the React module): the last status
                    \* it was handed by onConduitStatusUpdate, and the last error
                    \* event it sent and from which exported method
    secureStore,    \* SecureStore: the string stored under each of the four keys
    account,        \* createOrLoadAccount: the call in progress (its position, its
                    \* locals, its outcome) and the first Account ever returned
    asyncStorage,   \* AsyncStorage: the string stored under each key
    migration       \* version0To1 / applyMigrations: the call in progress, the
                    \* AsyncStorage calls it made, what it returned

vars == <<series, seriesCall, activityStats, crashed, lastCall,
          conduitStatus, tunnel, tasks, inside, snapshot, budget, listener,
          secureStore, account, asyncStorage, migration>>

\* The variables of the JavaScript side, which the native side leaves alone
jsVars == <<secureStore, account, asyncStorage, migration>>

\* The variables of the actor (and the JavaScript side), which SpecSeries and
\* SpecStats leave alone
actorVars == <<conduitStatus, tunnel, tasks, inside, snapshot, budget, listener,
               jsVars>>

----------------------------------------------------------------------------
(* Bounds of the model *)

\* numBuckets of ActivityStats.seriesFast (288 in the source), scaled down
NumBuckets == 3
\* SpecSeries: the largest numBuckets an ActivitySeries is constructed with
MaxSeriesBuckets == 5
\* update() is not called once a total would pass this many bytes
MaxTotal == 24

(* Program constants *)

\* msBucketPeriod of ActivityStats.seriesFast
MsBucketPeriod == 1000

\* nil, as a record: TLC compares a record with a record only
NoStats == [none |-> TRUE]
NoCall == [none |-> TRUE]
NoSnapshot == [none |-> TRUE]
NoParams == "none"

\* getItemAsync resolves to null when nothing is stored under the key
null == "(null)"

NoValue == [none |-> TRUE]
NaN == 0 - 1
NoKeyPair == [privateKey |-> "", publicKey |-> ""]

\* createOrLoadAccount not called yet
AccountIdle ==
    [pc |-> "idle", calls |-> 0, rejected |-> FALSE,
     mnemonic |-> "", accountKey |-> NoKeyPair, deviceNonce |-> NaN,
     inproxyKey |-> NoKeyPair,
     outcome |-> [kind |-> "none", value |-> NoValue],
     first |-> NoValue]

EmptyStore ==
    [mnemonic |-> null, accountKey |-> null, deviceNonce |-> null, inproxyKey |-> null]

\* A fresh install: nothing in AsyncStorage
FreshInstall == [inProxyLimitBytesPerSecond |-> null, storageVersion |-> null]

\* No migration called yet
MigrationIdle ==
    [pc |-> "idle", calls |-> 0, getItemKeys |-> {}, setItemCalls |-> 0,
     version |-> 0, result |-> 0 - 1, before |-> FreshInstall]

JsIdleInit ==
    /\ secureStore = EmptyStore
    /\ account = AccountIdle
    /\ asyncStorage = FreshInstall
    /\ migration = MigrationIdle

\* The listener before any event
NoEvents == [status |-> "none", caller |-> "none", error |-> "none"]

\* The actor before anything was called
ActorIdleInit ==
    /\ conduitStatus = "stopped"
    /\ tunnel = [created |-> FALSE, running |-> FALSE, configs |-> NoParams,
                 session |-> 0]
    /\ tasks = EmptyBag
    /\ inside = EmptyBag
    /\ snapshot = NoSnapshot
    /\ budget = [ticks |-> 0, calls |-> 0]
    /\ listener = NoEvents

----------------------------------------------------------------------------
(* Values of a tick: bytesUp, bytesDown, connectingClients, connectedClients *)

Tick(bytesUp, bytesDown, connectingClients, connectedClients) ==
    [bytesUp |-> bytesUp, bytesDown |-> bytesDown,
     connectingClients |-> connectingClients, connectedClients |-> connectedClients]

ZeroTick == Tick(0, 0, 0, 0)
TickA == Tick(10, 20, 1, 2)
TickB == Tick(3, 4, 2, 1)
TickNegUp == Tick(0 - 1, 5, 1, 1)
TickNegDown == Tick(5, 0 - 1, 1, 1)
TickNegClients == Tick(0, 0, 0 - 1, 0 - 2)

NonNegativeBytes(t) == t.bytesUp >= 0 /\ t.bytesDown >= 0

Channels == {"bytesUp", "bytesDown", "connectingClients", "connectedClients"}

----------------------------------------------------------------------------
(* struct ActivitySeries *)

Zeros(n) == [i \in 1..n |-> 0]

\* The last n elements of s (all of s when it is shorter)
LastN(s, n) == IF Len(s) <= n THEN s ELSE SubSeq(s, Len(s) - n + 1, Len(s))

\* init(msBucketPeriod:numBuckets:)
ActivitySeries(msBucketPeriod, numBuckets) ==
    [msBucketPeriod |-> msBucketPeriod,
     numBuckets |-> numBuckets,
     pushes |-> 0,
     bytesUp |-> Zeros(numBuckets),
     bytesDown |-> Zeros(numBuckets),
     connectingClients |-> Zeros(numBuckets),
     connectedClients |-> Zeros(numBuckets)]

\* A push that appends without removing the oldest element
pushChannelGrowing(self, channel, value) ==
    [self EXCEPT ![channel] = Append(@, value)]

\* self.<channel>.removeFirst(); self.<channel>.append(value)
pushChannel(self, channel, value) ==
    [self EXCEPT ![channel] = Append(Tail(@), value)]

\* pushDataPoints: the four channels in the order of the source. The field
\* pushes counts the calls (instrumentation: the source has no such field).
pushDataPoints(self, bytesUp, bytesDown, connectingClients, connectedClients) ==
    [pushChannel(
        pushChannel(
            pushChannel(
                pushChannel(self, "bytesUp", bytesUp),
                "bytesDown", bytesDown),
            "connectingClients", connectingClients),
        "connectedClients", connectedClients)
     EXCEPT !.pushes = @ + 1]

\* The gap count without the "- 1"
elapsedBucketCountOffByOne(self, msSinceUpdate) ==
    LET raw == msSinceUpdate \div self.msBucketPeriod
    IN  IF raw > self.numBuckets THEN self.numBuckets ELSE raw

\* The gap count without the clamp to numBuckets
elapsedBucketCountUnclamped(self, msSinceUpdate) ==
    (msSinceUpdate \div self.msBucketPeriod) - 1

\* var elapsedBucketCount = Int(msSinceUpdate / msBucketPeriod) - 1, clamped from
\* above to numBuckets (msSinceUpdate is a UInt64: never negative)
elapsedBucketCount(self, msSinceUpdate) ==
    LET raw == (msSinceUpdate \div self.msBucketPeriod) - 1
    IN  IF raw > self.numBuckets THEN self.numBuckets ELSE raw

\* (1...n).forEach { _ in pushDataPoints(0, 0, 0, 0) }, run only when n > 0
RECURSIVE pushZeros(_, _)
pushZeros(self, n) ==
    IF n > 0 THEN pushZeros(pushDataPoints(self, 0, 0, 0, 0), n - 1) ELSE self

\* An updateSeries that pushes the observation before the zero buckets
updateSeriesObservationFirst(self, msSinceUpdate, bytesUp, bytesDown, connectingClients, connectedClients) ==
    pushZeros(
        pushDataPoints([self EXCEPT !.pushes = 0],
                       bytesUp, bytesDown, connectingClients, connectedClients),
        elapsedBucketCount(self, msSinceUpdate))

\* An updateSeries that merges a tick arriving within the period of the
\* previous one into the newest bucket instead of pushing a bucket
updateSeriesMergeSubPeriod(self, msSinceUpdate, bytesUp, bytesDown, connectingClients, connectedClients) ==
    IF msSinceUpdate < self.msBucketPeriod
    THEN [self EXCEPT !.pushes = 0,
                      !.bytesUp[self.numBuckets] = @ + bytesUp,
                      !.bytesDown[self.numBuckets] = @ + bytesDown,
                      !.connectingClients[self.numBuckets] = connectingClients,
                      !.connectedClients[self.numBuckets] = connectedClients]
    ELSE pushDataPoints(
            pushZeros([self EXCEPT !.pushes = 0], elapsedBucketCount(self, msSinceUpdate)),
            bytesUp, bytesDown, connectingClients, connectedClients)

\* mutating func updateSeries(msSinceUpdate:_:_:_:_:); pushes restarts at 0, so
\* that afterwards it is the number of pushDataPoints calls this call made
updateSeries(self, msSinceUpdate, bytesUp, bytesDown, connectingClients, connectedClients) ==
    pushDataPoints(
        pushZeros([self EXCEPT !.pushes = 0], elapsedBucketCount(self, msSinceUpdate)),
        bytesUp, bytesDown, connectingClients, connectedClients)

\* The newest bucket of every channel, as a tick
NewestRow(self) ==
    Tick(self.bytesUp[Len(self.bytesUp)],
         self.bytesDown[Len(self.bytesDown)],
         self.connectingClients[Len(self.connectingClients)],
         self.connectedClients[Len(self.connectedClients)])

----------------------------------------------------------------------------
(* SpecSeries: an ActivitySeries under every sequence of updateSeries calls *)

SeriesTicks == {ZeroTick, TickA, TickB}

\* msSinceUpdate values: every whole period up to past the window, and around
\* the first boundaries the last millisecond before and half a period after
SeriesElapsed ==
    {k * MsBucketPeriod : k \in 0..(MaxSeriesBuckets + 3)}
        \cup {k * MsBucketPeriod - 1 : k \in 1..3}
        \cup {k * MsBucketPeriod + 500 : k \in 0..2}

SeriesInit ==
    /\ series \in {ActivitySeries(MsBucketPeriod, n) : n \in 1..MaxSeriesBuckets}
    /\ seriesCall = NoCall
    /\ activityStats = NoStats
    /\ crashed = FALSE
    /\ lastCall = NoCall
    /\ ActorIdleInit
    /\ JsIdleInit

SeriesUpdate ==
    \E msSinceUpdate \in SeriesElapsed, t \in SeriesTicks :
        /\ series' = updateSeries(series, msSinceUpdate, t.bytesUp, t.bytesDown,
                                  t.connectingClients, t.connectedClients)
        /\ seriesCall' = [msSinceUpdate |-> msSinceUpdate, tick |-> t,
                          before |-> series]
        /\ UNCHANGED <<activityStats, crashed, lastCall, actorVars>>

SeriesNext == SeriesUpdate

SpecSeries == SeriesInit /\ [][SeriesNext]_vars

----------------------------------------------------------------------------
(* struct ActivityStats *)

\* A conversion that truncates to whole seconds instead of rounding
roundTruncating(ms) == ms \div 1000

\* round(x) of a TimeInterval difference given in ms: to the nearest whole
\* second, halves away from zero (Foundation round); the result in seconds
round(ms) ==
    IF ms >= 0 THEN (ms + 500) \div 1000 ELSE 0 - ((500 - ms) \div 1000)

\* A start that leaves the start time at the reference date
ActivityStatsEpochStart(now) ==
    [startTime |-> 0,
     lastUpdate |-> now,
     totalBytesUp |-> 0,
     totalBytesDown |-> 0,
     currentConnectingClients |-> 0,
     currentConnectedClients |-> 0,
     seriesFast |-> ActivitySeries(MsBucketPeriod, NumBuckets)]

\* init(): startTime = Date().timeIntervalSinceReferenceDate; lastUpdate = startTime
ActivityStats(now) ==
    [startTime |-> now,
     lastUpdate |-> now,
     totalBytesUp |-> 0,
     totalBytesDown |-> 0,
     currentConnectingClients |-> 0,
     currentConnectedClients |-> 0,
     seriesFast |-> ActivitySeries(MsBucketPeriod, NumBuckets)]

\* var msElapsedTime: UInt64((lastUpdate - startTime) * 1000). The conversion
\* truncates toward zero and traps when the value is -1.0 or less.
msElapsedTime(self) ==
    LET ms == self.lastUpdate - self.startTime
    IN  [trap |-> ms <= 0 - 1, value |-> IF ms <= 0 - 1 THEN 0 ELSE ms]

\* Totals overwritten by the tick's bytes instead of accumulated
accumulateOverwrite(self, bytesUp, bytesDown, connectingClients, connectedClients) ==
    [self EXCEPT !.totalBytesUp = bytesUp,
                 !.totalBytesDown = bytesDown,
                 !.currentConnectingClients = connectingClients,
                 !.currentConnectedClients = connectedClients]

\* Current counts added up like the totals instead of overwritten
accumulateCumulativeClients(self, bytesUp, bytesDown, connectingClients, connectedClients) ==
    [self EXCEPT !.totalBytesUp = @ + bytesUp,
                 !.totalBytesDown = @ + bytesDown,
                 !.currentConnectingClients = @ + connectingClients,
                 !.currentConnectedClients = @ + connectedClients]

\* update(), the totals and the current counts:
\*   totalBytesUp += UInt64(bytesUp); totalBytesDown += UInt64(bytesDown)
\*   currentConnectingClients = connectingClients; currentConnectedClients = ...
accumulate(self, bytesUp, bytesDown, connectingClients, connectedClients) ==
    [self EXCEPT !.totalBytesUp = @ + bytesUp,
                 !.totalBytesDown = @ + bytesDown,
                 !.currentConnectingClients = connectingClients,
                 !.currentConnectedClients = connectedClients]

\* UInt64(bytesUp), UInt64(bytesDown) trap on a negative Int. (The sums trap
\* past 2^64 - 1, which no total within MaxTotal comes near.)
accumulateTraps(bytesUp, bytesDown) == bytesUp < 0 \/ bytesDown < 0

\* let msSinceUpdate = UInt64(round(now - lastUpdate)) * 1000: the conversion
\* traps when the rounded difference is negative
msSinceUpdateTraps(self, now) == round(now - self.lastUpdate) < 0

msSinceUpdate(self, now) == round(now - self.lastUpdate) * 1000

\* mutating func update(bytesUp:bytesDown:connectingClients:connectedClients:),
\* with now the reading of Date() it takes. A trap leaves nothing to observe:
\* the result then carries the value before the call.
update(self, now, bytesUp, bytesDown, connectingClients, connectedClients) ==
    IF accumulateTraps(bytesUp, bytesDown) \/ msSinceUpdateTraps(self, now)
    THEN [trap |-> TRUE, stats |-> self]
    ELSE [trap |-> FALSE,
          stats |->
            [accumulate(self, bytesUp, bytesDown, connectingClients, connectedClients)
             EXCEPT !.seriesFast =
                        updateSeries(@, msSinceUpdate(self, now), bytesUp, bytesDown,
                                     connectingClients, connectedClients),
                    !.lastUpdate = now]]

----------------------------------------------------------------------------
(* SpecStats: one ActivityStats under every sequence of update() calls and   *)
(* reads of msElapsedTime, for every reading of the wall clock              *)

StatsTicks == {TickA, TickB, TickNegUp, TickNegDown, TickNegClients}

\* The wall clock when the object is created
StatsStartTimes == {1000}

\* Readings of the wall clock (Date() is not monotonic): on a 250 ms grid
\* around the start, then whole seconds to past the window
StatsNow ==
    {250 * k : k \in 3..6} \cup {1000 * k : k \in 2..(NumBuckets + 3)}

\* The sum, over the calls of update() that returned, of one of the byte
\* counts they were handed: the sum up to the call before, plus this call's
AppliedBytes(call, trapped, sum, bytes) ==
    (IF call = NoCall THEN 0 ELSE call[sum]) + (IF trapped THEN 0 ELSE bytes)

StatsInit ==
    /\ activityStats \in {ActivityStats(now) : now \in StatsStartTimes}
    /\ crashed = FALSE
    /\ lastCall = NoCall
    /\ series = ActivitySeries(MsBucketPeriod, 1)
    /\ seriesCall = NoCall
    /\ ActorIdleInit
    /\ JsIdleInit

StatsUpdate ==
    /\ ~crashed
    /\ \E now \in StatsNow, t \in StatsTicks :
        LET r == update(activityStats, now, t.bytesUp, t.bytesDown,
                        t.connectingClients, t.connectedClients)
        IN  /\ activityStats.totalBytesUp + t.bytesUp <= MaxTotal
            /\ activityStats.totalBytesDown + t.bytesDown <= MaxTotal
            /\ activityStats' = r.stats
            /\ crashed' = r.trap
            /\ lastCall' = [tick |-> t, now |-> now, trapped |-> r.trap,
                            elapsed |-> now - activityStats.lastUpdate,
                            sumBytesUp |-> AppliedBytes(lastCall, r.trap, "sumBytesUp", t.bytesUp),
                            sumBytesDown |-> AppliedBytes(lastCall, r.trap, "sumBytesDown", t.bytesDown),
                            msSinceUpdate |->
                                IF msSinceUpdateTraps(activityStats, now)
                                THEN 0 - 1 ELSE msSinceUpdate(activityStats, now)]
    /\ UNCHANGED <<series, seriesCall, actorVars>>

\* A reader of the elapsed time (the listener building the event to send)
StatsRead ==
    /\ ~crashed
    /\ crashed' = msElapsedTime(activityStats).trap
    /\ UNCHANGED <<activityStats, lastCall, series, seriesCall, actorVars>>

StatsNext == StatsUpdate \/ StatsRead

SpecStats == StatsInit /\ [][StatsNext]_vars

----------------------------------------------------------------------------
(* ConduitModule as ConduitManager.Listener: the event sent to JavaScript    *)
(* for a stats value, and the schema JavaScript parses it with               *)

\* "\(stats.seriesFast.msBucketPeriod)ms"
bucketPeriod(msBucketPeriod) == ToString(msBucketPeriod) \o "ms"

\* ReactInProxyActivityStats(elapsedTime: stats.msElapsedTime, ...), built in
\* ConduitModule.onInproxyProxyActivity(stats:)
ReactInProxyActivityStats(stats) ==
    [elapsedTime |-> msElapsedTime(stats).value,
     totalBytesUp |-> stats.totalBytesUp,
     totalBytesDown |-> stats.totalBytesDown,
     currentConnectingClients |-> stats.currentConnectingClients,
     currentConnectedClients |-> stats.currentConnectedClients,
     dataByPeriod |->
        [numBuckets |-> stats.seriesFast.numBuckets,
         bytesUp |-> stats.seriesFast.bytesUp,
         bytesDown |-> stats.seriesFast.bytesDown,
         connectingClients |-> stats.seriesFast.connectingClients,
         connectedClients |-> stats.seriesFast.connectedClients,
         bucketPeriod |-> bucketPeriod(stats.seriesFast.msBucketPeriod)]]

\* ReactInProxyActivityStats.asDictionary with DataByPeriod.asDictionary: a
\* dictionary whose dataByPeriod has the one key bucketPeriod
asDictionary(self) ==
    [elapsedTime |-> self.elapsedTime,
     totalBytesUp |-> self.totalBytesUp,
     totalBytesDown |-> self.totalBytesDown,
     currentConnectingClients |-> self.currentConnectingClients,
     currentConnectedClients |-> self.currentConnectedClients,
     dataByPeriod |->
        (self.dataByPeriod.bucketPeriod :>
            [numBuckets |-> self.dataByPeriod.numBuckets,
             bytesUp |-> self.dataByPeriod.bytesUp,
             bytesDown |-> self.dataByPeriod.bytesDown,
             connectingClients |-> self.dataByPeriod.connectingClients,
             connectedClients |-> self.dataByPeriod.connectedClients])]

\* The length the schema demands of each array (288, as numBuckets of
\* seriesFast), scaled like NumBuckets
SchemaArrayLength == NumBuckets

SchemaChannels == {"bytesUp", "bytesDown", "connectingClients", "connectedClients"}

\* InProxyActivityDataByPeriodSchema.parse: a z.object of four arrays of
\* the demanded length; a key the schema does not name is stripped
InProxyActivityDataByPeriodSchema(data) ==
    IF /\ SchemaChannels \subseteq DOMAIN data
       /\ \A ch \in SchemaChannels : Len(data[ch]) = SchemaArrayLength
    THEN [ok |-> TRUE, value |-> [ch \in SchemaChannels |-> data[ch]]]
    ELSE [ok |-> FALSE, value |-> << >>]

\* InProxyActivityStatsSchema.parse: five numbers and dataByPeriod, a z.object
\* with the one key "1000ms"
InProxyActivityStatsSchema(data) ==
    IF "1000ms" \notin DOMAIN data.dataByPeriod
    THEN [ok |-> FALSE, value |-> << >>]
    ELSE LET byPeriod == InProxyActivityDataByPeriodSchema(data.dataByPeriod["1000ms"])
         IN  IF ~byPeriod.ok
             THEN [ok |-> FALSE, value |-> << >>]
             ELSE [ok |-> TRUE,
                   value |->
                      [elapsedTime |-> data.elapsedTime,
                       totalBytesUp |-> data.totalBytesUp,
                       totalBytesDown |-> data.totalBytesDown,
                       currentConnectingClients |-> data.currentConnectingClients,
                       currentConnectedClients |-> data.currentConnectedClients,
                       dataByPeriod |-> ("1000ms" :> byPeriod.value)]]

\* listener.onInproxyProxyActivity(stats:): what the listener is handed, for
\* which tick and clock reading and from which stats, and the event it sends
onInproxyProxyActivity(stats, tick, now, before) ==
    [stats |-> stats, tick |-> tick, now |-> now, before |-> before,
     event |-> asDictionary(ReactInProxyActivityStats(stats))]

----------------------------------------------------------------------------
(* actor ConduitManager.                                                    *)
(* A Task is a job record. A job that needs the actor waits in `tasks`      *)
(* until the actor is free, runs on it (`inside`) up to its next            *)
(* suspension point or its end, and while an awaited engine call is in      *)
(* progress it is back in `tasks`, the actor released. update() has no      *)
(* suspension point; its steps are modelled one mutation at a time so that  *)
(* what another thread could see between them is a state of the model.      *)

ConduitParams == {"params1", "params2"}

\* The ticks the engine reports, and the readings of the wall clock
ActorTicks == {TickA, TickB}
ActorNow == {750, 1000, 3000}

\* The engine emits at most this many ticks, callers make at most this many calls
MaxTicks == 2
MaxCalls == 2
\* SpecLifecycle: callers make at most this many calls
MaxLifecycleCalls == 4
\* SpecModule: the exported methods are called at most this many times, the
\* engine reports must-upgrade at most this many times
MaxModuleCalls == 4
MaxUpgrades == 1

\* The order in which pushDataPoints writes the channels
ChannelOrder == <<"bytesUp", "bytesDown", "connectingClients", "connectedClients">>

Job(kind, pc, tick, params) ==
    [kind |-> kind, pc |-> pc, tick |-> tick, params |-> params,
     success |-> FALSE, now |-> 0, gap |-> 0, ch |-> 0, before |-> NoStats,
     session |-> 0, owner |-> 0, seq |-> 0, caller |-> "none"]

Add(bag, job) == bag (+) SetToBag({job})
Remove(bag, job) == bag (-) SetToBag({job})

\* Without actor isolation: any job may run at any time
ActorIdleUnisolated == TRUE

\* actor ConduitManager: one job at a time executes actor-isolated code
ActorIdle == inside = EmptyBag

Init ==
    /\ ActorIdleInit
    /\ JsIdleInit
    /\ activityStats = NoStats
    /\ crashed = FALSE
    /\ lastCall = NoCall
    /\ series = ActivitySeries(MsBucketPeriod, 1)
    /\ seriesCall = NoCall

\* What the actor's actions leave alone
statsOnly == <<series, seriesCall, lastCall, jsVars>>

(* Callers and the engine: none of these needs the actor *)

\* A caller's Task reaches `await conduitManager.startConduit(params)`
CallStartWithin(maxCalls) ==
    /\ ~crashed
    /\ budget.calls < maxCalls
    /\ \E p \in ConduitParams :
          tasks' = Add(tasks, Job("start", "enqueued", ZeroTick, p))
    /\ budget' = [budget EXCEPT !.calls = @ + 1]
    /\ UNCHANGED <<activityStats, crashed, conduitStatus, tunnel, inside, snapshot, listener, statsOnly>>

CallStart == CallStartWithin(MaxCalls)

\* A caller's Task reaches `await conduitManager.stopConduit()`
CallStopWithin(maxCalls) ==
    /\ ~crashed
    /\ budget.calls < maxCalls
    /\ tasks' = Add(tasks, Job("stop", "enqueued", ZeroTick, NoParams))
    /\ budget' = [budget EXCEPT !.calls = @ + 1]
    /\ UNCHANGED <<activityStats, crashed, conduitStatus, tunnel, inside, snapshot, listener, statsOnly>>

CallStop == CallStopWithin(MaxCalls)

\* The running engine reports activity on one of its threads:
\* PsiphonTunnelListener.onInproxyProxyActivity -> ConduitManager
\* .onInproxyProxyActivity, which spawns Task { await updateActivityStats(..) }.
\* The job remembers the engine session that emitted it and, where the order
\* of emission is observed, its rank among the ticks emitted (else 0).
EmitTick(ranked) ==
    /\ ~crashed
    /\ tunnel.running
    /\ budget.ticks < MaxTicks
    /\ \E t \in ActorTicks :
          tasks' = Add(tasks, [Job("tick", "enqueued", t, NoParams)
                                  EXCEPT !.session = tunnel.session,
                                         !.seq = IF ranked THEN budget.ticks + 1 ELSE 0])
    /\ budget' = [budget EXCEPT !.ticks = @ + 1]
    /\ UNCHANGED <<activityStats, crashed, conduitStatus, tunnel, inside, snapshot, listener, statsOnly>>

EngineTick == EmitTick(FALSE)

\* PsiphonTunnelAsyncWrapper.stop(): the detached task's psiphonTunnel.stop() returns
EngineStopReturns ==
    /\ ~crashed
    /\ \E job \in BagToSet(tasks) :
        /\ job.pc = "awaitStop"
        /\ tunnel' = [tunnel EXCEPT !.running = FALSE]
        /\ tasks' = Add(Remove(tasks, job), [job EXCEPT !.pc = "afterStop"])
    /\ UNCHANGED <<activityStats, crashed, conduitStatus, inside, snapshot, budget, listener, statsOnly>>

\* PsiphonTunnelAsyncWrapper.start(forced:): psiphonTunnel.start returns a Bool
EngineStartReturns ==
    /\ ~crashed
    /\ \E job \in BagToSet(tasks), success \in BOOLEAN :
        /\ job.pc = "awaitStart"
        /\ tunnel' = [tunnel EXCEPT !.running = success,
                                    !.session = IF success THEN @ + 1 ELSE @]
        /\ tasks' = Add(Remove(tasks, job),
                        [job EXCEPT !.pc = "afterStart", !.success = success])
    /\ UNCHANGED <<activityStats, crashed, conduitStatus, inside, snapshot, budget, listener, statsOnly>>

(* The listener and the configuration *)

\* ConduitModule.onConduitStatusUpdate(_:internetReachable:): the listener
\* is handed the status
onConduitStatusUpdate(self, status) == [self EXCEPT !.status = status]

\* The exported methods of ConduitModule that call startConduit
Callers == {"toggleInProxy", "paramsChanged"}

\* The catch around `try await self.conduitManager.startConduit(params)`:
\* sendEvent(.proxyError(.inProxyStartFailed)) in toggleInProxy,
\* sendEvent(.proxyError(.inProxyRestartFailed)) in paramsChanged, with
\* ReactProxyError.asDictionary naming the action
sendProxyError(self, caller) ==
    [self EXCEPT !.caller = caller,
                 !.error = IF caller = "toggleInProxy" THEN "inProxyStartFailed"
                           ELSE "inProxyRestartFailed"]

\* A comparison that never finds the parameters equal
isEqualConduitParamsNever(dynamicConfigs, conduitParams) == FALSE

\* PsiphonTunnelListener.isEqualConduitParams(_:)
isEqualConduitParams(dynamicConfigs, conduitParams) == dynamicConfigs = conduitParams

\* A guard that lets every status but stopped through
guardStartedOrBusy(status) == status # "stopped"

\* guard case .started = conduitStatus else { ...; return }
guardStarted(status) == status = "started"

\* A tick that finds no stats and creates them
updateActivityStatsOfNoneCreates(now) == [none |-> FALSE]

\* guard activityStats != nil else { return }: what a tick leaves of no stats
updateActivityStatsOfNone(now) == NoStats

(* func startConduit(_ params:) *)

\* From the entry to `await psiphonTunnel!.stop()`
StartBegin ==
    /\ ~crashed
    /\ ActorIdle
    /\ \E job \in BagToSet(tasks) :
        /\ job.kind = "start" /\ job.pc = "enqueued"
        /\ IF conduitStatus = "starting"
           THEN \* "Concurrent start requests are not permitted."
                /\ tasks' = Remove(tasks, job)
                /\ UNCHANGED <<conduitStatus, tunnel, listener>>
           ELSE IF /\ conduitStatus = "started"
                   /\ isEqualConduitParams(tunnel.configs, job.params)
           THEN \* "Restart conduit with duplicate parameters denied."
                /\ tasks' = Remove(tasks, job)
                /\ tunnel' = [tunnel EXCEPT !.created = TRUE]
                /\ UNCHANGED <<conduitStatus, listener>>
           ELSE \* setConduitStatus(.starting)
                /\ conduitStatus' = "starting"
                /\ listener' = onConduitStatusUpdate(listener, "starting")
                /\ tunnel' = [tunnel EXCEPT !.created = TRUE]
                /\ tasks' = Add(Remove(tasks, job), [job EXCEPT !.pc = "awaitStop"])
    /\ UNCHANGED <<activityStats, crashed, inside, snapshot, budget, statsOnly>>

\* From the return of stop() to `await psiphonTunnel!.start(forced: false)`
StartAfterStop ==
    /\ ~crashed
    /\ ActorIdle
    /\ \E job \in BagToSet(tasks) :
        /\ job.kind = "start" /\ job.pc = "afterStop"
        /\ activityStats' = NoStats
        /\ tunnel' = [tunnel EXCEPT !.configs = job.params]
        /\ tasks' = Add(Remove(tasks, job), [job EXCEPT !.pc = "awaitStart"])
    /\ UNCHANGED <<crashed, conduitStatus, inside, snapshot, budget, listener, statsOnly>>

\* From the return of start() to the end
StartAfterStart ==
    /\ ~crashed
    /\ ActorIdle
    /\ \E job \in BagToSet(tasks), now \in ActorNow :
        /\ job.kind = "start" /\ job.pc = "afterStart"
        /\ tasks' = Remove(tasks, job)
        /\ IF job.success
           THEN /\ conduitStatus' = "started"
                /\ listener' = onConduitStatusUpdate(listener, "started")
                /\ activityStats' = ActivityStats(now)
                /\ snapshot' = onInproxyProxyActivity(ActivityStats(now), ZeroTick,
                                                      now, NoStats)
                /\ crashed' = msElapsedTime(ActivityStats(now)).trap
           ELSE \* setConduitStatus(.stopped); throw Err(...), which the
                \* caller catches
                /\ conduitStatus' = "stopped"
                /\ \E caller \in (IF job.caller = "none" THEN Callers
                                   ELSE {job.caller}) :
                      listener' = sendProxyError(
                                      onConduitStatusUpdate(listener, "stopped"), caller)
                /\ UNCHANGED <<activityStats, snapshot, crashed>>
    /\ UNCHANGED <<tunnel, inside, budget, statsOnly>>

(* func stopConduit() *)

\* From the entry to `await psiphonTunnel.stop()`
StopBegin ==
    /\ ~crashed
    /\ ActorIdle
    /\ \E job \in BagToSet(tasks) :
        /\ job.kind = "stop" /\ job.pc = "enqueued"
        /\ IF ~guardStarted(conduitStatus)
           THEN /\ tasks' = Remove(tasks, job)
                /\ UNCHANGED <<conduitStatus, listener>>
           ELSE /\ conduitStatus' = "stopping"
                /\ listener' = onConduitStatusUpdate(listener, "stopping")
                /\ tasks' = Add(Remove(tasks, job), [job EXCEPT !.pc = "awaitStop"])
    /\ UNCHANGED <<activityStats, crashed, tunnel, inside, snapshot, budget, statsOnly>>

\* From the return of stop() to the end
StopAfterStop ==
    /\ ~crashed
    /\ ActorIdle
    /\ \E job \in BagToSet(tasks) :
        /\ job.kind = "stop" /\ job.pc = "afterStop"
        /\ conduitStatus' = "stopped"
        /\ listener' = onConduitStatusUpdate(listener, "stopped")
        /\ activityStats' = NoStats
        /\ tasks' = Remove(tasks, job)
    /\ UNCHANGED <<crashed, tunnel, inside, snapshot, budget, statsOnly>>

(* func updateActivityStats(connectingClients:connectedClients:bytesUp:bytesDown:) *)

\* The job gets the actor: guard activityStats != nil else return; then
\* update() reads the clock, adds to the totals, sets the current counts and
\* computes msSinceUpdate and the gap count of updateSeries. The job
\* remembers the engine session whose ActivityStats it updates.
TickBegin ==
    /\ ~crashed
    /\ ActorIdle
    /\ \E job \in BagToSet(tasks), now \in ActorNow :
        /\ job.kind = "tick" /\ job.pc = "enqueued"
        /\ tasks' = Remove(tasks, job)
        /\ IF activityStats = NoStats
           THEN /\ activityStats' = updateActivityStatsOfNone(now)
                /\ UNCHANGED <<crashed, inside>>
           ELSE IF \/ accumulateTraps(job.tick.bytesUp, job.tick.bytesDown)
                   \/ msSinceUpdateTraps(activityStats, now)
           THEN /\ crashed' = TRUE
                /\ UNCHANGED <<activityStats, inside>>
           ELSE LET n == elapsedBucketCount(activityStats.seriesFast,
                                            msSinceUpdate(activityStats, now))
                IN  /\ activityStats' =
                          [accumulate(activityStats, job.tick.bytesUp, job.tick.bytesDown,
                                      job.tick.connectingClients,
                                      job.tick.connectedClients)
                           EXCEPT !.seriesFast.pushes = 0]
                    /\ inside' = Add(inside,
                                     [job EXCEPT !.pc = "push", !.now = now, !.ch = 1,
                                                 !.gap = IF n > 0 THEN n ELSE 0,
                                                 !.before = activityStats,
                                                 !.owner = tunnel.session])
                    /\ UNCHANGED crashed
    /\ UNCHANGED <<conduitStatus, tunnel, snapshot, budget, listener, statsOnly>>

\* One removeFirst/append pair of pushDataPoints: of a zero row while gap
\* buckets remain, then of the observed values
TickPush ==
    /\ ~crashed
    /\ \E job \in BagToSet(inside) :
        /\ job.pc = "push"
        /\ IF activityStats = NoStats
           THEN \* activityStats! of nil
                /\ crashed' = TRUE
                /\ UNCHANGED <<activityStats, inside>>
           ELSE /\ activityStats' =
                      [activityStats EXCEPT
                          !.seriesFast =
                              [pushChannel(@, ChannelOrder[job.ch],
                                           IF job.gap > 0 THEN 0
                                           ELSE job.tick[ChannelOrder[job.ch]])
                               EXCEPT !.pushes = IF job.ch = 4 THEN @ + 1 ELSE @]]
                /\ inside' = Add(Remove(inside, job),
                                 IF job.ch < 4 THEN [job EXCEPT !.ch = @ + 1]
                                 ELSE IF job.gap > 0
                                      THEN [job EXCEPT !.ch = 1, !.gap = @ - 1]
                                      ELSE [job EXCEPT !.pc = "finish"])
                /\ UNCHANGED crashed
    /\ UNCHANGED <<conduitStatus, tunnel, tasks, snapshot, budget, listener, statsOnly>>

\* self.lastUpdate = now; then listener.onInproxyProxyActivity(stats:), which
\* copies the value and reads its msElapsedTime; the job leaves the actor
TickFinish ==
    /\ ~crashed
    /\ \E job \in BagToSet(inside) :
        /\ job.pc = "finish"
        /\ inside' = Remove(inside, job)
        /\ IF activityStats = NoStats
           THEN /\ crashed' = TRUE
                /\ UNCHANGED <<activityStats, snapshot>>
           ELSE LET after == [activityStats EXCEPT !.lastUpdate = job.now]
                IN  /\ activityStats' = after
                    /\ snapshot' = onInproxyProxyActivity(after, job.tick, job.now,
                                                          job.before)
                    /\ crashed' = msElapsedTime(after).trap
    /\ UNCHANGED <<conduitStatus, tunnel, tasks, budget, listener, statsOnly>>

Next ==
    \/ CallStart \/ CallStop
    \/ EngineTick \/ EngineStopReturns \/ EngineStartReturns
    \/ StartBegin \/ StartAfterStop \/ StartAfterStart
    \/ StopBegin \/ StopAfterStop
    \/ TickBegin \/ TickPush \/ TickFinish

Spec == Init /\ [][Next]_vars

(* SpecLifecycle: startConduit and stopConduit calls alone (the engine     *)
(* reports no activity), with room for more calls in flight                 *)

LifecycleCallStart == CallStartWithin(MaxLifecycleCalls)
LifecycleCallStop == CallStopWithin(MaxLifecycleCalls)

LifecycleNext ==
    \/ LifecycleCallStart \/ LifecycleCallStop
    \/ EngineStopReturns \/ EngineStartReturns
    \/ StartBegin \/ StartAfterStop \/ StartAfterStart
    \/ StopBegin \/ StopAfterStop

SpecLifecycle == Init /\ [][LifecycleNext]_vars

(* SpecOrder: one startConduit after another and the ticks of the engine,   *)
(* each tick carrying its rank of emission                                  *)

RankedEngineTick == EmitTick(TRUE)

OrderNext ==
    \/ CallStart
    \/ RankedEngineTick \/ EngineStopReturns \/ EngineStartReturns
    \/ StartBegin \/ StartAfterStop \/ StartAfterStart
    \/ TickBegin \/ TickPush \/ TickFinish

SpecOrder == Init /\ [][OrderNext]_vars

(* SpecModule: the exported methods of ConduitModule and the engine's       *)
(* must-upgrade report. Each runs in a Task of its own, which reads the     *)
(* status in one visit to the actor and calls startConduit or stopConduit   *)
(* in another.                                                              *)

\* toggleInProxy(...) or paramsChanged(...) is called on the method queue and
\* spawns its Task
CallModule(kind) ==
    /\ ~crashed
    /\ budget.calls < MaxModuleCalls
    /\ \E p \in ConduitParams :
          tasks' = Add(tasks, Job(kind, "enqueued", ZeroTick, p))
    /\ budget' = [budget EXCEPT !.calls = @ + 1]
    /\ UNCHANGED <<activityStats, crashed, conduitStatus, tunnel, inside, snapshot, listener, statsOnly>>

CallToggleInProxy == CallModule("toggleInProxy")

CallParamsChanged == CallModule("paramsChanged")

\* switch await self.conduitManager.conduitStatus, in toggleInProxy:
\* .stopped goes on to startConduit(params), .started to stopConduit(),
\* .starting and .stopping are a no-op
toggleInProxy ==
    /\ ~crashed
    /\ ActorIdle
    /\ \E job \in BagToSet(tasks) :
        /\ job.kind = "toggleInProxy"
        /\ tasks' =
              IF conduitStatus = "stopped"
              THEN Add(Remove(tasks, job),
                       [job EXCEPT !.kind = "start", !.caller = "toggleInProxy"])
              ELSE IF conduitStatus = "started"
              THEN Add(Remove(tasks, job),
                       [job EXCEPT !.kind = "stop", !.params = NoParams,
                                   !.caller = "toggleInProxy"])
              ELSE Remove(tasks, job)
    /\ UNCHANGED <<activityStats, crashed, conduitStatus, tunnel, inside, snapshot, budget, listener, statsOnly>>

\* switch await self.conduitManager.conduitStatus, in paramsChanged:
\* .stopping and .stopped resolve, .starting rejects, .started goes on to
\* startConduit(params)
paramsChanged ==
    /\ ~crashed
    /\ ActorIdle
    /\ \E job \in BagToSet(tasks) :
        /\ job.kind = "paramsChanged"
        /\ tasks' =
              IF conduitStatus = "started"
              THEN Add(Remove(tasks, job),
                       [job EXCEPT !.kind = "start", !.caller = "paramsChanged"])
              ELSE Remove(tasks, job)
    /\ UNCHANGED <<activityStats, crashed, conduitStatus, tunnel, inside, snapshot, budget, listener, statsOnly>>

\* The engine, started or being started, reports that this version must be
\* upgraded: PsiphonTunnelListener -> ConduitManager.onInproxyMustUpgrade,
\* which spawns its Task
EngineMustUpgrade ==
    /\ ~crashed
    /\ tunnel.running \/ \E job \in BagToSet(tasks) : job.pc = "awaitStart"
    /\ budget.ticks < MaxUpgrades
    /\ tasks' = Add(tasks, Job("onInproxyMustUpgrade", "enqueued", ZeroTick, NoParams))
    /\ budget' = [budget EXCEPT !.ticks = @ + 1]
    /\ UNCHANGED <<activityStats, crashed, conduitStatus, tunnel, inside, snapshot, listener, statsOnly>>

\* await self.listener.onInproxyMustUpgrade(), which sends
\* .proxyError(.inProxyMustUpgrade); the Task goes on to stopConduit()
onInproxyMustUpgrade ==
    /\ ~crashed
    /\ ActorIdle
    /\ \E job \in BagToSet(tasks) :
        /\ job.kind = "onInproxyMustUpgrade"
        /\ tasks' = Add(Remove(tasks, job),
                        [job EXCEPT !.kind = "stop", !.caller = "onInproxyMustUpgrade"])
    /\ listener' = [listener EXCEPT !.caller = "onInproxyMustUpgrade",
                                    !.error = "inProxyMustUpgrade"]
    /\ UNCHANGED <<activityStats, crashed, conduitStatus, tunnel, inside, snapshot, budget, statsOnly>>

ModuleNext ==
    \/ CallToggleInProxy \/ CallParamsChanged \/ EngineMustUpgrade
    \/ toggleInProxy \/ paramsChanged \/ onInproxyMustUpgrade
    \/ EngineStopReturns \/ EngineStartReturns
    \/ StartBegin \/ StartAfterStop \/ StartAfterStart
    \/ StopBegin \/ StopAfterStop

SpecModule == Init /\ [][ModuleNext]_vars

\* Every Task is scheduled in the end and gets the actor when it is free,
\* and every engine call returns
ModuleProgress ==
    \/ toggleInProxy \/ paramsChanged \/ onInproxyMustUpgrade
    \/ EngineStopReturns \/ EngineStartReturns
    \/ StartBegin \/ StartAfterStop \/ StartAfterStart
    \/ StopBegin \/ StopAfterStop

SpecModuleFair == SpecModule /\ WF_vars(ModuleProgress)

(* SpecToggle: toggleInProxy called again and again, and nothing else *)

ToggleNext ==
    \/ CallToggleInProxy \/ toggleInProxy
    \/ EngineStopReturns \/ EngineStartReturns
    \/ StartBegin \/ StartAfterStop \/ StartAfterStart
    \/ StopBegin \/ StopAfterStop

SpecToggle == Init /\ [][ToggleNext]_vars

----------------------------------------------------------------------------
(* createOrLoadAccount(): Promise<Account | Error>.                          *)
(* Strings are strings; a key pair is the pair of strings its derivation     *)
(* yields. The helpers imported from elsewhere in the repository             *)
(* (deriveEd25519KeyPair, keyPairToBase64nopad, base64nopadToKeyPair,        *)
(* formatConduitBip32Path, wrapError) are modelled by their signatures:      *)
(* deterministic in their arguments, and failing when the action says so.    *)

\* At most this many calls of createOrLoadAccount, one after the other
MaxAccountCalls == 3

\* bip39.generateMnemonic(englishWordlist): one of these
Mnemonics == {"abandon ability", "zone zoo"}

\* Math.floor(Math.random() * 0x80000000): one of these
DeviceNonces == {0, 7}

\* formatConduitBip32Path(deviceNonce); the account key uses the default path
formatConduitBip32Path(deviceNonce) == "m/" \o ToString(deviceNonce)
DefaultBip32Path == "m"

deriveEd25519KeyPair(mnemonic, path) ==
    [privateKey |-> "priv(" \o mnemonic \o "," \o path \o ")",
     publicKey |-> "pub(" \o mnemonic \o "," \o path \o ")"]

\* Every key pair a derivation can yield
KeyPairs ==
    {deriveEd25519KeyPair(m, path) :
        m \in Mnemonics,
        path \in {DefaultBip32Path} \cup
                  {formatConduitBip32Path(n) : n \in DeviceNonces \cup {NaN}}}

keyPairToBase64nopad(keyPair) ==
    "b64[" \o keyPair.privateKey \o "|" \o keyPair.publicKey \o "]"

\* base64nopadToKeyPair: the key pair the string encodes, or an Error
base64nopadToKeyPair(str) ==
    IF \E keyPair \in KeyPairs : keyPairToBase64nopad(keyPair) = str
    THEN [ok |-> TRUE,
          value |-> CHOOSE keyPair \in KeyPairs : keyPairToBase64nopad(keyPair) = str]
    ELSE [ok |-> FALSE, value |-> NoKeyPair]

\* parseInt(str): the number the decimal string denotes, NaN for another string
parseInt(str) ==
    IF \E n \in DeviceNonces : ToString(n) = str
    THEN CHOOSE n \in DeviceNonces : ToString(n) = str
    ELSE NaN

\* A stored value that is taken for none at all, whatever is stored
isStoredNever(item) == FALSE

\* The negation of `!storedX`: null and the empty string count as not stored
isStored(item) == item # null /\ item # ""

\* wrapError(error, "Error signing in")
wrapError(error, message) == [error |-> message, cause |-> error]

\* An exception that leaves the function instead of being caught
catchRethrows(error) == [kind |-> "thrown", value |-> [error |-> error, cause |-> ""]]

\* catch (error) { return wrapError(error, "Error signing in"); }
catch(error) == [kind |-> "returned", value |-> wrapError(error, "Error signing in")]

\* The call ends with this outcome
accountEnds(outcome) ==
    [account EXCEPT !.pc = "idle", !.outcome = outcome,
                    !.first = IF /\ @ = NoValue /\ outcome.kind = "returned"
                                 /\ "mnemonic" \in DOMAIN outcome.value
                              THEN outcome.value ELSE @]

nativeVars == <<series, seriesCall, activityStats, crashed, lastCall,
                conduitStatus, tunnel, tasks, inside, snapshot, budget, listener>>

\* What can go wrong in one step: a SecureStore promise rejects, a derivation
\* or an encoding returns an Error
StepFaults == {"none", "getRejects", "setRejects", "deriveFails", "encodeFails"}

\* SecureStore as earlier runs (or an earlier version) of the app left it
AccountStores ==
    {EmptyStore,
     [EmptyStore EXCEPT !.accountKey = "not a key pair"],
     [EmptyStore EXCEPT !.deviceNonce = "not a number"]}

AccountInit ==
    /\ secureStore \in AccountStores
    /\ account = AccountIdle
    /\ asyncStorage = FreshInstall
    /\ migration = MigrationIdle
    /\ ActorIdleInit
    /\ activityStats = NoStats
    /\ crashed = FALSE
    /\ lastCall = NoCall
    /\ series = ActivitySeries(MsBucketPeriod, 1)
    /\ seriesCall = NoCall

\* The caller calls createOrLoadAccount (the previous call has ended)
createOrLoadAccount ==
    /\ account.pc = "idle"
    /\ account.calls < MaxAccountCalls
    /\ account' = [AccountIdle EXCEPT !.pc = "mnemonic", !.calls = account.calls + 1,
                                      !.first = account.first]
    /\ UNCHANGED <<secureStore, nativeVars, asyncStorage, migration>>

\* // Load mnemonic
loadMnemonic ==
    /\ account.pc = "mnemonic"
    /\ \E fault \in {"none", "getRejects", "setRejects"}, newMnemonic \in Mnemonics :
        IF fault = "getRejects"
        THEN /\ account' = [accountEnds(catch("getItemAsync")) EXCEPT !.rejected = TRUE]
             /\ UNCHANGED secureStore
        ELSE IF ~isStored(secureStore.mnemonic)
        THEN IF fault = "setRejects"
             THEN /\ account' = accountEnds(catch("setItemAsync"))
                  /\ UNCHANGED secureStore
             ELSE /\ secureStore' = [secureStore EXCEPT !.mnemonic = newMnemonic]
                  /\ account' = [account EXCEPT !.mnemonic = newMnemonic,
                                                !.pc = "accountKey"]
        ELSE /\ account' = [account EXCEPT !.mnemonic = secureStore.mnemonic,
                                           !.pc = "accountKey"]
             /\ UNCHANGED secureStore
    /\ UNCHANGED <<nativeVars, asyncStorage, migration>>

\* // Load account key
loadAccountKey ==
    /\ account.pc = "accountKey"
    /\ \E fault \in StepFaults :
        LET derived == deriveEd25519KeyPair(account.mnemonic, DefaultBip32Path)
            stored == base64nopadToKeyPair(secureStore.accountKey)
        IN  IF fault = "getRejects"
            THEN /\ account' = [accountEnds(catch("getItemAsync")) EXCEPT !.rejected = TRUE]
                 /\ UNCHANGED secureStore
            ELSE IF ~isStored(secureStore.accountKey)
            THEN IF fault = "deriveFails"
                 THEN /\ account' = accountEnds(catch("deriveEd25519KeyPair"))
                      /\ UNCHANGED secureStore
                 ELSE IF fault = "encodeFails"
                 THEN \* throw derived: the key pair, not the Error
                      /\ account' = accountEnds(catch(derived.publicKey))
                      /\ UNCHANGED secureStore
                 ELSE IF fault = "setRejects"
                 THEN /\ account' = accountEnds(catch("setItemAsync"))
                      /\ UNCHANGED secureStore
                 ELSE /\ secureStore' = [secureStore EXCEPT
                                            !.accountKey = keyPairToBase64nopad(derived)]
                      /\ account' = [account EXCEPT !.accountKey = derived,
                                                    !.pc = "deviceNonce"]
            ELSE IF ~stored.ok
                 THEN /\ account' = accountEnds(catch("base64nopadToKeyPair"))
                      /\ UNCHANGED secureStore
                 ELSE /\ account' = [account EXCEPT !.accountKey = stored.value,
                                                    !.pc = "deviceNonce"]
                      /\ UNCHANGED secureStore
    /\ UNCHANGED <<nativeVars, asyncStorage, migration>>

\* // Load device nonce
loadDeviceNonce ==
    /\ account.pc = "deviceNonce"
    /\ \E fault \in {"none", "getRejects", "setRejects"}, newDeviceNonce \in DeviceNonces :
        IF fault = "getRejects"
        THEN /\ account' = [accountEnds(catch("getItemAsync")) EXCEPT !.rejected = TRUE]
             /\ UNCHANGED secureStore
        ELSE IF ~isStored(secureStore.deviceNonce)
        THEN IF fault = "setRejects"
             THEN /\ account' = accountEnds(catch("setItemAsync"))
                  /\ UNCHANGED secureStore
             ELSE /\ secureStore' = [secureStore EXCEPT
                                        !.deviceNonce = ToString(newDeviceNonce)]
                  /\ account' = [account EXCEPT !.deviceNonce = newDeviceNonce,
                                                !.pc = "inproxyKey"]
        ELSE /\ account' = [account EXCEPT
                                !.deviceNonce = parseInt(secureStore.deviceNonce),
                                !.pc = "inproxyKey"]
             /\ UNCHANGED secureStore
    /\ UNCHANGED <<nativeVars, asyncStorage, migration>>

\* // Load inproxy key
loadInproxyKey ==
    /\ account.pc = "inproxyKey"
    /\ \E fault \in StepFaults :
        LET derived == deriveEd25519KeyPair(account.mnemonic,
                                            formatConduitBip32Path(account.deviceNonce))
            stored == base64nopadToKeyPair(secureStore.inproxyKey)
        IN  IF fault = "getRejects"
            THEN /\ account' = [accountEnds(catch("getItemAsync")) EXCEPT !.rejected = TRUE]
                 /\ UNCHANGED secureStore
            ELSE IF ~isStored(secureStore.inproxyKey)
            THEN IF fault = "deriveFails"
                 THEN /\ account' = accountEnds(catch("deriveEd25519KeyPair"))
                      /\ UNCHANGED secureStore
                 ELSE IF fault = "encodeFails"
                 THEN /\ account' = accountEnds(catch("keyPairToBase64nopad"))
                      /\ UNCHANGED secureStore
                 ELSE IF fault = "setRejects"
                 THEN /\ account' = accountEnds(catch("setItemAsync"))
                      /\ UNCHANGED secureStore
                 ELSE /\ secureStore' = [secureStore EXCEPT
                                            !.inproxyKey = keyPairToBase64nopad(derived)]
                      /\ account' = [account EXCEPT !.inproxyKey = derived,
                                                    !.pc = "parse"]
            ELSE IF ~stored.ok
                 THEN /\ account' = accountEnds(catch("base64nopadToKeyPair"))
                      /\ UNCHANGED secureStore
                 ELSE /\ account' = [account EXCEPT !.inproxyKey = stored.value,
                                                    !.pc = "parse"]
                      /\ UNCHANGED secureStore
    /\ UNCHANGED <<nativeVars, asyncStorage, migration>>

\* return AccountSchema.parse({...}): z.number() does not accept NaN
parseAccount ==
    /\ account.pc = "parse"
    /\ account' =
          IF account.deviceNonce = NaN
          THEN accountEnds(catch("ZodError"))
          ELSE accountEnds([kind |-> "returned",
                            value |-> [mnemonic |-> account.mnemonic,
                                       accountKey |-> account.accountKey,
                                       deviceNonce |-> account.deviceNonce,
                                       inproxyKey |-> account.inproxyKey]])
    /\ UNCHANGED <<secureStore, nativeVars, asyncStorage, migration>>

AccountNext ==
    \/ createOrLoadAccount
    \/ loadMnemonic \/ loadAccountKey \/ loadDeviceNonce \/ loadInproxyKey
    \/ parseAccount

SpecAccount == AccountInit /\ [][AccountNext]_vars

----------------------------------------------------------------------------
(* migrations: version0To1 and applyMigrations, as their tests describe     *)
(* them. A stored number is the decimal string of the number.               *)

\* The stored limit is at most this many mebibytes per second
MaxLimitMiB == 20
\* At most this many calls of version0To1 / applyMigrations
MaxMigrationCalls == 2

CURRENT_STORAGE_VERSION == 1

Mebi == 1024 * 1024
Mega == 1000 * 1000

\* The numbers a stored string can denote
StorableNumbers ==
    {k * Mebi : k \in 1..MaxLimitMiB} \cup {k * Mega : k \in 1..MaxLimitMiB}
        \cup 0..CURRENT_STORAGE_VERSION

\* parseInt of a stored decimal string
storedNumber(str) == CHOOSE n \in StorableNumbers : ToString(n) = str

\* A conversion that takes mebibytes for kibibytes
bibytesToSibytesKilo(bibytes) == (bibytes \div 1024) * 1000

\* The same number of SI megabytes as there were mebibytes
bibytesToSibytes(bibytes) == (bibytes \div Mebi) * Mega

\* AsyncStorage after version0To1: nothing stored, nothing written; else
\* the limit rewritten in SI units
version0To1Storage(storage) ==
    IF storage.inProxyLimitBytesPerSecond = null
    THEN storage
    ELSE [storage EXCEPT !.inProxyLimitBytesPerSecond =
              ToString(bibytesToSibytes(storedNumber(@)))]

\* AsyncStorage of version 0 (no version stored) or of the current version
MigrationStorages ==
    {FreshInstall}
        \cup {[inProxyLimitBytesPerSecond |-> ToString(k * Mebi), storageVersion |-> null] :
                k \in 1..MaxLimitMiB}
        \cup {[inProxyLimitBytesPerSecond |-> ToString(k * Mega),
                storageVersion |-> ToString(CURRENT_STORAGE_VERSION)] :
                k \in 1..MaxLimitMiB}

MigrationInit ==
    /\ asyncStorage \in MigrationStorages
    /\ migration = MigrationIdle
    /\ secureStore = EmptyStore
    /\ account = AccountIdle
    /\ ActorIdleInit
    /\ activityStats = NoStats
    /\ crashed = FALSE
    /\ lastCall = NoCall
    /\ series = ActivitySeries(MsBucketPeriod, 1)
    /\ seriesCall = NoCall

notMigration == <<nativeVars, secureStore, account>>

\* await version0To1(), called on storage of version 0
version0To1 ==
    /\ migration.pc = "idle"
    /\ migration.calls < MaxMigrationCalls
    /\ asyncStorage.storageVersion = null
    /\ asyncStorage' = version0To1Storage(asyncStorage)
    /\ migration' = [MigrationIdle EXCEPT
                        !.calls = migration.calls + 1,
                        !.getItemKeys = {"inProxyLimitBytesPerSecond"},
                        !.setItemCalls =
                            IF asyncStorage.inProxyLimitBytesPerSecond = null
                            THEN 0 ELSE 1,
                        !.before = asyncStorage]
    /\ UNCHANGED notMigration

\* await applyMigrations(): read the stored version (none: 0)
applyMigrations ==
    /\ migration.pc = "idle"
    /\ migration.calls < MaxMigrationCalls
    /\ migration' = [MigrationIdle EXCEPT
                        !.pc = "migrate",
                        !.calls = migration.calls + 1,
                        !.getItemKeys = {"storageVersion"},
                        !.version = IF asyncStorage.storageVersion = null THEN 0
                                    ELSE storedNumber(asyncStorage.storageVersion),
                        !.before = asyncStorage]
    /\ UNCHANGED <<asyncStorage, notMigration>>

\* applyMigrations: the migration from the version read to the next one
applyMigrationsStep ==
    /\ migration.pc = "migrate"
    /\ migration.version < CURRENT_STORAGE_VERSION
    /\ asyncStorage' = version0To1Storage(asyncStorage)
    /\ migration' = [migration EXCEPT
                        !.version = @ + 1,
                        !.getItemKeys = @ \cup {"inProxyLimitBytesPerSecond"},
                        !.setItemCalls =
                            IF asyncStorage.inProxyLimitBytesPerSecond = null
                            THEN @ ELSE @ + 1]
    /\ UNCHANGED notMigration

\* applyMigrations: store the version reached and return it
applyMigrationsEnd ==
    /\ migration.pc = "migrate"
    /\ migration.version >= CURRENT_STORAGE_VERSION
    /\ asyncStorage' = [asyncStorage EXCEPT
                           !.storageVersion = ToString(migration.version)]
    /\ migration' = [migration EXCEPT !.pc = "idle",
                                      !.setItemCalls = @ + 1,
                                      !.result = migration.version]
    /\ UNCHANGED notMigration

MigrationNext ==
    \/ version0To1
    \/ applyMigrations \/ applyMigrationsStep \/ applyMigrationsEnd

SpecMigrations == MigrationInit /\ [][MigrationNext]_vars

----------------------------------------------------------------------------
(* Claims about ActivitySeries and ActivityStats *)

SeriesLengthsAre(self, n) ==
    \A ch \in Channels : Len(self[ch]) = n

\* C1: after construction and after every update() call, all four series of
\* the rolling series have length exactly numBuckets.
C1_FixedLength ==
    /\ activityStats.seriesFast.numBuckets = NumBuckets
    /\ SeriesLengthsAre(activityStats.seriesFast, NumBuckets)

\* An update() that filled the whole window with zero buckets has completed
C1_Witness ==
    /\ lastCall # NoCall
    /\ ~lastCall.trapped
    /\ lastCall.msSinceUpdate > (NumBuckets + 1) * MsBucketPeriod
    /\ lastCall.tick = TickA
    /\ SeriesLengthsAre(activityStats.seriesFast, NumBuckets)

\* The number of zero buckets the elapsed time of the last updateSeries call
\* stands for: floor(msSinceUpdate / msBucketPeriod) - 1
SeriesCallGap == (seriesCall.msSinceUpdate \div seriesCall.before.msBucketPeriod) - 1

\* C4: updateSeries inserts exactly floor(msSinceUpdate / msBucketPeriod) - 1
\* zero buckets (when that number is between 1 and numBuckets) into every
\* channel before the observation; with numBuckets = 5, period 1000, an
\* all-zero series, 3 periods elapsed and values (10,20,1,2) the last three
\* buckets of bytesUp are <<0, 0, 10>>.
C4_ZeroGapFill ==
    seriesCall # NoCall =>
        /\ (SeriesCallGap >= 1 /\ SeriesCallGap <= series.numBuckets) =>
              /\ series.pushes = SeriesCallGap + 1
              /\ \A ch \in Channels :
                    series[ch] =
                        LastN(seriesCall.before[ch] \o Zeros(SeriesCallGap)
                                \o <<seriesCall.tick[ch]>>,
                              series.numBuckets)
        /\ ( /\ seriesCall.before = ActivitySeries(1000, 5)
             /\ seriesCall.msSinceUpdate = 3000
             /\ seriesCall.tick = TickA ) =>
              LastN(series.bytesUp, 3) = <<0, 0, 10>>

\* The worked example, and a fill of two zero buckets over earlier observations
C4_Witness ==
    /\ seriesCall # NoCall
    /\ seriesCall.msSinceUpdate = 3000
    /\ seriesCall.tick = TickA
    /\ series.numBuckets = 5
    /\ seriesCall.before.bytesUp = <<0, 0, 0, 10, 3>>
    /\ series.bytesUp = <<10, 3, 0, 0, 10>>

\* C5: the number of zero buckets one updateSeries call inserts is within
\* [0, numBuckets]; when the elapsed time stands for more gap buckets than
\* numBuckets, every channel is all zeros except its last slot, which holds
\* the new observation; the call makes at most numBuckets + 1 pushes.
C5_ClampedGap ==
    seriesCall # NoCall =>
        /\ series.pushes - 1 \in 0..series.numBuckets
        /\ SeriesCallGap > series.numBuckets =>
              /\ series.pushes = series.numBuckets + 1
              /\ \A ch \in Channels :
                    series[ch] = Zeros(series.numBuckets - 1) \o <<seriesCall.tick[ch]>>

\* More gap buckets than the window holds, over a window full of observations
C5_Witness ==
    /\ seriesCall # NoCall
    /\ SeriesCallGap > series.numBuckets + 1
    /\ series.numBuckets = 3
    /\ seriesCall.before.bytesUp = <<10, 3, 10>>
    /\ seriesCall.tick = TickB
    /\ series.bytesUp = <<0, 0, 3>>

\* C6: an update() whose elapsed time rounds to 0 or to one period pushes
\* exactly one bucket and inserts no zero bucket; after two such calls in
\* succession every channel ends with the first tick's value followed by
\* the second tick's value, the rows before them moved up by one per call.
C6_SubPeriodCollapse ==
    [][ ( /\ StatsUpdate
          /\ ~lastCall'.trapped
          /\ lastCall'.msSinceUpdate <= MsBucketPeriod ) =>
            /\ activityStats'.seriesFast.pushes = 1
            /\ \A ch \in Channels :
                /\ activityStats'.seriesFast[ch] =
                      Append(Tail(activityStats.seriesFast[ch]), lastCall'.tick[ch])
                /\ ( /\ lastCall # NoCall
                     /\ lastCall.msSinceUpdate <= MsBucketPeriod ) =>
                      LastN(activityStats'.seriesFast[ch], 2) =
                          <<lastCall.tick[ch], lastCall'.tick[ch]>>
      ]_vars

\* Two calls in immediate succession, TickA then TickB, on a fresh object
C6_Witness ==
    /\ lastCall # NoCall
    /\ ~crashed
    /\ lastCall.msSinceUpdate = 0
    /\ lastCall.tick = TickB
    /\ activityStats.lastUpdate = activityStats.startTime
    /\ activityStats.totalBytesUp = TickA.bytesUp + TickB.bytesUp
    /\ LastN(activityStats.seriesFast.bytesUp, 2) = <<TickA.bytesUp, TickB.bytesUp>>
    /\ LastN(activityStats.seriesFast.connectedClients, 2) =
          <<TickA.connectedClients, TickB.connectedClients>>

\* C7: after any update() call, for any elapsed time, the newest bucket of
\* bytesUp, bytesDown, connectingClients and connectedClients holds the
\* respective value of that tick.
C7_NewestBucketIsTick ==
    (lastCall # NoCall /\ ~lastCall.trapped) =>
        NewestRow(activityStats.seriesFast) = lastCall.tick

\* A tick that arrived after a gap of two zero buckets
C7_Witness ==
    /\ lastCall # NoCall
    /\ ~lastCall.trapped
    /\ lastCall.msSinceUpdate = 3 * MsBucketPeriod
    /\ lastCall.tick = TickA
    /\ NewestRow(activityStats.seriesFast) = TickA

\* C8: for ticks with non-negative byte deltas, totalBytesUp and
\* totalBytesDown of one ActivityStats never decrease from one update()
\* call to the next, and nothing else changes them.
C8_MonotonicTotals ==
    [][ /\ activityStats'.totalBytesUp >= activityStats.totalBytesUp
        /\ activityStats'.totalBytesDown >= activityStats.totalBytesDown
        /\ (StatsUpdate /\ ~lastCall'.trapped) =>
              /\ activityStats'.totalBytesUp =
                    activityStats.totalBytesUp + lastCall'.tick.bytesUp
              /\ activityStats'.totalBytesDown =
                    activityStats.totalBytesDown + lastCall'.tick.bytesDown
      ]_vars

\* A smaller tick applied after a larger one
C8_Witness ==
    /\ lastCall # NoCall
    /\ ~lastCall.trapped
    /\ lastCall.tick = TickB
    /\ activityStats.totalBytesUp = TickA.bytesUp + TickB.bytesUp
    /\ activityStats.totalBytesDown = TickA.bytesDown + TickB.bytesDown

\* C9: lastUpdate never decreases across update() calls, startTime never
\* changes, and msElapsedTime is always available (it does not trap),
\* non-negative and non-decreasing.
C9_LastUpdateMonotonic ==
    [][ /\ activityStats'.lastUpdate >= activityStats.lastUpdate
        /\ activityStats'.startTime = activityStats.startTime
        /\ ~msElapsedTime(activityStats').trap
        /\ msElapsedTime(activityStats').value >= msElapsedTime(activityStats).value
      ]_vars

\* C10: update() has no failure mode: for every tick with non-negative
\* bytes and every reading of the wall clock the call completes normally.
C10_UpdateNeverTraps ==
    (lastCall # NoCall /\ NonNegativeBytes(lastCall.tick)) => ~lastCall.trapped

\* A tick with every negative field replaced by zero
ClampedTick(t) ==
    Tick(IF t.bytesUp < 0 THEN 0 ELSE t.bytesUp,
         IF t.bytesDown < 0 THEN 0 ELSE t.bytesDown,
         IF t.connectingClients < 0 THEN 0 ELSE t.connectingClients,
         IF t.connectedClients < 0 THEN 0 ELSE t.connectedClients)

\* C11: a tick with a negative bytesUp, bytesDown, connectingClients or
\* connectedClients never makes update() fail, and the field counts as zero:
\* the newest bucket and the current counts are those of the clamped tick.
\* (Calls whose clock reading alone makes update() trap are left aside.)
C11_NegativeClamped ==
    (lastCall # NoCall /\ lastCall.elapsed >= 0) =>
        /\ ~lastCall.trapped
        /\ NewestRow(activityStats.seriesFast) = ClampedTick(lastCall.tick)
        /\ activityStats.currentConnectingClients =
              ClampedTick(lastCall.tick).connectingClients
        /\ activityStats.currentConnectedClients =
              ClampedTick(lastCall.tick).connectedClients

\* C12: after each update() the current client counts are exactly the
\* counts of that tick, whatever the ticks before it were.
C12_CurrentCountsInstantaneous ==
    (lastCall # NoCall /\ ~lastCall.trapped) =>
        /\ activityStats.currentConnectingClients = lastCall.tick.connectingClients
        /\ activityStats.currentConnectedClients = lastCall.tick.connectedClients

\* TickB applied after TickA: the counts are TickB's, the totals the sums
C12_Witness ==
    /\ lastCall # NoCall
    /\ ~lastCall.trapped
    /\ lastCall.tick = TickB
    /\ activityStats.totalBytesUp = TickA.bytesUp + TickB.bytesUp
    /\ activityStats.seriesFast.connectingClients[NumBuckets - 1] = TickA.connectingClients
    /\ activityStats.currentConnectingClients = TickB.connectingClients
    /\ activityStats.currentConnectedClients = TickB.connectedClients

\* C13: an update() arriving k seconds after the previous one, give or take
\* less than half a second (k - 0.5 s <= elapsed < k + 0.5 s), acts as one
\* arriving after exactly k seconds: for k = 1 it pushes one bucket and no
\* zero bucket, for k >= 2 it puts k - 1 zero buckets before the observation.
C13_JitterAbsorbed ==
    [][ (StatsUpdate /\ ~lastCall'.trapped) =>
          \A k \in 1..(NumBuckets + 3) :
            ( /\ lastCall'.elapsed >= k * 1000 - 500
              /\ lastCall'.elapsed < k * 1000 + 500 ) =>
                /\ k = 1 => activityStats'.seriesFast.pushes = 1
                /\ (k >= 2 /\ k - 1 <= NumBuckets) =>
                      activityStats'.seriesFast.pushes = k
                /\ \A ch \in Channels :
                      activityStats'.seriesFast[ch] =
                          LastN(activityStats.seriesFast[ch] \o Zeros(k - 1)
                                  \o <<lastCall'.tick[ch]>>,
                                NumBuckets)
      ]_vars

\* A tick 1.75 s after the previous one: one zero bucket between the two
C13_Witness ==
    /\ lastCall # NoCall
    /\ ~lastCall.trapped
    /\ lastCall.elapsed = 1750
    /\ lastCall.tick = TickB
    /\ LastN(activityStats.seriesFast.bytesUp, 3) = <<TickA.bytesUp, 0, TickB.bytesUp>>

\* C21: after any sequence of update() calls on one ActivityStats,
\* totalBytesUp is the sum of the bytesUp of every tick applied since it was
\* created and totalBytesDown the sum of their bytesDown, whatever the
\* elapsed times, the gap filling and the values that left the window.
C21_TotalsAreExactSums ==
    lastCall # NoCall =>
        /\ activityStats.totalBytesUp = lastCall.sumBytesUp
        /\ activityStats.totalBytesDown = lastCall.sumBytesDown

\* TickA, then TickB after a gap longer than the window: the buckets hold
\* TickB alone, the totals both
C21_Witness ==
    /\ lastCall # NoCall
    /\ ~lastCall.trapped
    /\ lastCall.tick = TickB
    /\ lastCall.elapsed > NumBuckets * MsBucketPeriod
    /\ activityStats.seriesFast.bytesUp = Zeros(NumBuckets - 1) \o <<TickB.bytesUp>>
    /\ activityStats.totalBytesUp = TickA.bytesUp + TickB.bytesUp
    /\ activityStats.totalBytesDown = TickA.bytesDown + TickB.bytesDown

----------------------------------------------------------------------------
(* Claims about the actor and the stats it owns *)

\* C2: a snapshot of ActivityStats a reader holds, between or during
\* update() calls, never mixes ticks: the newest bucket of every channel and
\* the current counts are those of one tick, and the whole value is what one
\* complete update() makes of the value before it.
C2_SnapshotConsistent ==
    snapshot # NoSnapshot =>
        /\ NewestRow(snapshot.stats.seriesFast) = snapshot.tick
        /\ snapshot.stats.currentConnectingClients = snapshot.tick.connectingClients
        /\ snapshot.stats.currentConnectedClients = snapshot.tick.connectedClients
        /\ snapshot.before # NoStats =>
              snapshot.stats =
                  update(snapshot.before, snapshot.now, snapshot.tick.bytesUp,
                         snapshot.tick.bytesDown, snapshot.tick.connectingClients,
                         snapshot.tick.connectedClients).stats

\* The listener holds the snapshot of the first of two ticks while the update
\* for the second one is in the middle of its four-channel push
C2_Witness ==
    /\ snapshot # NoSnapshot
    /\ snapshot.tick = TickA
    /\ \E job \in BagToSet(inside) :
          job.pc = "push" /\ job.tick = TickB /\ job.ch = 3 /\ job.gap = 0
    /\ NewestRow(activityStats.seriesFast) # TickA
    /\ NewestRow(activityStats.seriesFast) # TickB

\* A stats value nothing was accumulated into, with no time elapsed
IsFreshStats(stats) ==
    /\ msElapsedTime(stats) = [trap |-> FALSE, value |-> 0]
    /\ stats.totalBytesUp = 0
    /\ stats.totalBytesDown = 0
    /\ stats.currentConnectingClients = 0
    /\ stats.currentConnectedClients = 0
    /\ stats.seriesFast.numBuckets = NumBuckets
    /\ \A ch \in Channels : stats.seriesFast[ch] = Zeros(NumBuckets)

\* C14: when startConduit succeeds, on a first start or on a restart, it
\* stores a fresh ActivityStats and hands it to the listener; and whenever
\* there were no stats before a step that hands the listener a snapshot,
\* that snapshot (the first of its session) has elapsed time 0, totals 0,
\* current counts 0 and four series of zeros.
C14_SessionStartsFromZero ==
    [][ /\ (StartAfterStart /\ conduitStatus' = "started") =>
              /\ activityStats' # NoStats
              /\ IsFreshStats(activityStats')
              /\ snapshot'.stats = activityStats'
              /\ snapshot'.event.elapsedTime = 0
        /\ (activityStats = NoStats /\ snapshot' # snapshot) =>
              /\ IsFreshStats(snapshot'.stats)
              /\ snapshot'.event.elapsedTime = 0
              /\ snapshot'.event.totalBytesUp = 0
              /\ snapshot'.event.totalBytesDown = 0
      ]_vars

\* The second session has started, after a first one that counted a tick:
\* the listener holds the zero snapshot of the new session
C14_Witness ==
    /\ tunnel.session = 2
    /\ conduitStatus = "started"
    /\ budget.ticks > 0
    /\ snapshot # NoSnapshot
    /\ snapshot.before = NoStats
    /\ snapshot.stats = activityStats
    /\ IsFreshStats(activityStats)
    /\ activityStats.startTime = 3000

\* C15: a tick the engine emitted in one session is never accumulated into
\* the ActivityStats of a later session, however the tick's Task is
\* scheduled relative to stopConduit / startConduit: every update in
\* progress is for a tick of the session the stats belong to.
C15_NoCrossSessionLeak ==
    \A job \in BagToSet(inside) :
        job.kind = "tick" => job.session = job.owner

\* C16: whenever no job is in the middle of a synchronous step on the actor,
\* conduitStatus = stopped implies activityStats is nil and conduitStatus =
\* started implies activityStats is not nil.
C16_StatsFollowStatus ==
    ActorIdle =>
        /\ conduitStatus = "stopped" => activityStats = NoStats
        /\ conduitStatus = "started" => activityStats # NoStats

\* ActivityStats comes into being or is discarded in this step
StatsCreatedOrDiscarded == (activityStats = NoStats) # (activityStats' = NoStats)

\* C3: no two executions of update() overlap, and none overlaps the
\* creation or the discarding of ActivityStats in startConduit / stopConduit:
\* at most one job is on the actor at any time.
C3_SingleWriter ==
    /\ [](BagCardinality(inside) <= 1)
    /\ [][StatsCreatedOrDiscarded => inside = EmptyBag]_vars

\* An update is in progress while a second tick and a stopConduit call wait
C3_Witness ==
    /\ \E job \in BagToSet(inside) : job.kind = "tick" /\ job.pc = "push"
    /\ \E job \in BagToSet(tasks) : job.kind = "tick" /\ job.pc = "enqueued"
    /\ \E job \in BagToSet(tasks) : job.kind = "stop" /\ job.pc = "enqueued"

\* C17: the event sent for a snapshot, parsed on the receiving side with
\* InProxyActivityStatsSchema, is accepted and is field for field the wire
\* shape of the snapshot: elapsedTime, the totals, the current counts and,
\* under dataByPeriod["<period>ms"], numBuckets and the four sequences in
\* their order; no field is lost.
C17_SerializationRoundTrip ==
    snapshot # NoSnapshot =>
        LET parsed == InProxyActivityStatsSchema(snapshot.event)
            period == bucketPeriod(snapshot.stats.seriesFast.msBucketPeriod)
        IN  /\ parsed.ok
            /\ parsed.value.elapsedTime = msElapsedTime(snapshot.stats).value
            /\ parsed.value.totalBytesUp = snapshot.stats.totalBytesUp
            /\ parsed.value.totalBytesDown = snapshot.stats.totalBytesDown
            /\ parsed.value.currentConnectingClients =
                  snapshot.stats.currentConnectingClients
            /\ parsed.value.currentConnectedClients =
                  snapshot.stats.currentConnectedClients
            /\ DOMAIN parsed.value.dataByPeriod = {period}
            /\ \A ch \in Channels :
                  parsed.value.dataByPeriod[period][ch] = snapshot.stats.seriesFast[ch]
            /\ "numBuckets" \in DOMAIN parsed.value.dataByPeriod[period]
            /\ parsed.value = snapshot.event

----------------------------------------------------------------------------
(* Claims about startConduit and stopConduit *)

\* No call of startConduit or stopConduit is in progress or waiting
AllCallsReturned == tasks = EmptyBag /\ inside = EmptyBag

\* C22: once every startConduit and stopConduit call has returned, whatever
\* their interleaving, conduitStatus is started exactly if the engine runs
\* and stopped exactly if it does not: a stopConduit suspended in the
\* engine's stop never overwrites the outcome of a start that ran meanwhile.
C22_StatusFollowsEngine ==
    AllCallsReturned =>
        /\ conduitStatus = "started" <=> tunnel.running
        /\ conduitStatus = "stopped" <=> ~tunnel.running

\* The startConduit and stopConduit jobs
StartJobs == {job \in BagToSet(tasks) : job.kind = "start"}

\* The step is one of this job: one copy of it leaves `tasks` or moves on
TakesJob(job, step) ==
    /\ step
    /\ job \notin BagToSet(tasks') \/ tasks'[job] < tasks[job]

\* StartBegin takes this job
StartBeginOf(job) == job.pc = "enqueued" /\ TakesJob(job, StartBegin)

\* How many engine start() calls are in flight
StartsInFlight ==
    LET awaiting == {job \in BagToSet(tasks) : job.pc = "awaitStart"}
    IN  IF awaiting = {} THEN 0
        ELSE BagCardinality([job \in awaiting |-> tasks[job]])

\* C23: a startConduit call that gets the actor while conduitStatus is
\* starting returns having changed neither the status, the engine and its
\* configuration, activityStats nor what the listener was told, and having
\* called nothing of the engine; so at most one engine start() is in flight
\* at any time.
C23_NoConcurrentStart ==
    /\ []( StartsInFlight <= 1 )
    /\ [][ \A job \in StartJobs :
              (conduitStatus = "starting" /\ StartBeginOf(job)) =>
                    /\ tasks' = Remove(tasks, job)
                    /\ UNCHANGED <<conduitStatus, tunnel, activityStats, snapshot,
                                   listener>>
       ]_vars

\* C24: startConduit called while conduitStatus is started with the
\* parameters currently configured leaves the status, the engine, the
\* configuration and activityStats as they are and emits no event; with
\* other parameters it begins a stop-and-start.
C24_DuplicateRestartDenied ==
    [][ \A job \in StartJobs :
          (conduitStatus = "started" /\ StartBeginOf(job)) =>
              IF job.params = tunnel.configs
              THEN /\ tasks' = Remove(tasks, job)
                   /\ UNCHANGED <<conduitStatus, tunnel, activityStats, snapshot,
                                  listener>>
              ELSE /\ conduitStatus' = "starting"
                   /\ listener'.status = "starting"
                   /\ tasks' = Add(Remove(tasks, job), [job EXCEPT !.pc = "awaitStop"])
      ]_vars

\* A started conduit and, waiting for the actor, nothing but a startConduit
\* with the parameters it runs with
C24_Witness ==
    /\ conduitStatus = "started"
    /\ tunnel.running
    /\ activityStats # NoStats
    /\ ActorIdle
    /\ BagCardinality(tasks) = 1
    /\ \E job \in StartJobs : job.pc = "enqueued" /\ job.params = tunnel.configs

StopJobs == {job \in BagToSet(tasks) : job.kind = "stop"}

\* C25: a stopConduit that finds conduitStatus stopped, stopping or starting
\* returns having changed neither the status nor activityStats and having
\* called nothing of the engine; one that finds it started sets stopping,
\* awaits the engine's stop, then sets stopped and clears activityStats.
C25_StopOnlyWhenStarted ==
    [][ \A job \in StopJobs :
          /\ (job.pc = "enqueued" /\ TakesJob(job, StopBegin)) =>
                IF conduitStatus = "started"
                THEN /\ conduitStatus' = "stopping"
                     /\ listener'.status = "stopping"
                     /\ tasks' = Add(Remove(tasks, job), [job EXCEPT !.pc = "awaitStop"])
                     /\ UNCHANGED <<activityStats, tunnel>>
                ELSE /\ tasks' = Remove(tasks, job)
                     /\ UNCHANGED <<conduitStatus, activityStats, tunnel, snapshot,
                                    listener>>
          /\ (job.pc = "afterStop" /\ TakesJob(job, StopAfterStop)) =>
                /\ conduitStatus' = "stopped"
                /\ listener'.status = "stopped"
                /\ activityStats' = NoStats
                /\ tasks' = Remove(tasks, job)
      ]_vars

\* One successful start, then one stopConduit that ran to its end
C25_Witness ==
    /\ budget.calls = 2
    /\ AllCallsReturned
    /\ tunnel.session = 1
    /\ ~tunnel.running
    /\ conduitStatus = "stopped"
    /\ listener = onConduitStatusUpdate(NoEvents, "stopped")
    /\ activityStats = NoStats

\* C26: when the engine's start returns false, startConduit sets
\* conduitStatus to stopped, leaves activityStats nil, hands the listener no
\* stats and throws, which the React module turns into a proxyError event:
\* start failed from toggleInProxy, restart failed from paramsChanged.
C26_FailedStartLeavesNoSession ==
    [][ \A job \in StartJobs :
          (job.pc = "afterStart" /\ ~job.success /\ TakesJob(job, StartAfterStart)) =>
              /\ conduitStatus' = "stopped"
              /\ listener'.status = "stopped"
              /\ activityStats' = NoStats
              /\ snapshot' = snapshot
              /\ tasks' = Remove(tasks, job)
              /\ listener'.caller \in Callers
              /\ listener'.caller = "toggleInProxy" =>
                    listener'.error = "inProxyStartFailed"
              /\ listener'.caller = "paramsChanged" =>
                    listener'.error = "inProxyRestartFailed"
      ]_vars

\* The transitions of conduitStatus the life cycle consists of
AllowedTransitions ==
    {<<"stopped", "starting">>, <<"starting", "started">>, <<"starting", "stopped">>,
     <<"started", "stopping">>, <<"stopping", "stopped">>, <<"started", "starting">>}

\* C27: conduitStatus only moves stopped -> starting, starting -> started,
\* starting -> stopped, started -> stopping, stopping -> stopped and
\* started -> starting, for every sequence and interleaving of startConduit
\* and stopConduit calls and engine returns, and every transition is reported
\* to the listener through onConduitStatusUpdate.
C27_StatusTransitions ==
    [][ conduitStatus' # conduitStatus =>
            /\ <<conduitStatus, conduitStatus'>> \in AllowedTransitions
            /\ listener'.status = conduitStatus'
      ]_vars

----------------------------------------------------------------------------
(* Claims about the ticks the actor receives *)

TickJobs == {job \in BagToSet(tasks) : job.kind = "tick"}

\* C28: a tick delivered while activityStats is nil (before the first
\* successful start, after a stop, during the start phase of a start or
\* restart) is dropped: it changes no state and hands the listener nothing.
C28_TickWithoutStatsDropped ==
    [][ \A job \in TickJobs :
          (job.pc = "enqueued" /\ activityStats = NoStats /\ TakesJob(job, TickBegin)) =>
              /\ tasks' = Remove(tasks, job)
              /\ UNCHANGED <<activityStats, crashed, conduitStatus, tunnel, inside,
                             snapshot, listener>>
      ]_vars

\* A start, one tick of the engine and a stop, all done: the listener still
\* holds the zero snapshot of the start, the tick found no stats
C28_Witness ==
    /\ budget = [ticks |-> 1, calls |-> 2]
    /\ AllCallsReturned
    /\ conduitStatus = "stopped"
    /\ listener = onConduitStatusUpdate(NoEvents, "stopped")
    /\ activityStats = NoStats
    /\ snapshot # NoSnapshot
    /\ snapshot.tick = ZeroTick
    /\ snapshot.before = NoStats

\* C29: each tick applied to ActivityStats hands the listener exactly one
\* onInproxyProxyActivity event, and that event carries the stats as they
\* are right after that tick's update (totals and newest buckets include the
\* tick); so from one snapshot to the next of a session neither the totals
\* nor the elapsed time decrease.
C29_OneEventPerAppliedTick ==
    [][ /\ (TickBegin \/ TickPush) => snapshot' = snapshot
        /\ \A job \in BagToSet(inside) :
              (job.pc = "finish" /\ TickFinish) =>
                  /\ ~crashed'
                  /\ activityStats' =
                        update(job.before, job.now, job.tick.bytesUp, job.tick.bytesDown,
                               job.tick.connectingClients, job.tick.connectedClients).stats
                  /\ snapshot' = onInproxyProxyActivity(activityStats', job.tick, job.now,
                                                        job.before)
                  /\ NewestRow(snapshot'.stats.seriesFast) = job.tick
        /\ (snapshot # NoSnapshot /\ snapshot' # snapshot /\ snapshot'.before = snapshot.stats) =>
              /\ snapshot'.stats.totalBytesUp >= snapshot.stats.totalBytesUp
              /\ snapshot'.stats.totalBytesDown >= snapshot.stats.totalBytesDown
              /\ msElapsedTime(snapshot'.stats).value >= msElapsedTime(snapshot.stats).value
      ]_vars

\* C30: ticks are applied in the order the engine emitted them: update() for
\* a tick never runs while a tick emitted before it still waits for the
\* actor, although every tick reaches the actor through a Task of its own.
C30_EmissionOrder ==
    \A applied \in BagToSet(inside), waiting \in TickJobs :
        (applied.kind = "tick" /\ waiting.pc = "enqueued") => applied.seq < waiting.seq

----------------------------------------------------------------------------
(* Claims about the exported methods and the must-upgrade report *)

\* The engine has reported must-upgrade and the Task of the report waits
MustUpgradeReported ==
    \E job \in BagToSet(tasks) : job.kind = "onInproxyMustUpgrade"

\* C31: whenever the engine reports must-upgrade, the listener receives the
\* must-upgrade event and the conduit eventually has status stopped with the
\* engine not running, whatever the status was when the report arrived.
C31_MustUpgradeStops ==
    /\ MustUpgradeReported ~> (listener.error = "inProxyMustUpgrade")
    /\ MustUpgradeReported ~> (conduitStatus = "stopped" /\ ~tunnel.running)

\* A startConduit is between its first and its last statement
StartInProgress ==
    \E job \in StartJobs : job.pc \in {"awaitStop", "afterStop", "awaitStart", "afterStart"}

\* C32: toggleInProxy goes on to startConduit with its parameters when it
\* reads stopped, to stopConduit when it reads started, and does nothing when
\* it reads starting or stopping; so however many toggles are made in quick
\* succession, two engine starts are never in flight and stopConduit is
\* never called while a start is in progress.
C32_ToggleDispatch ==
    /\ []( StartsInFlight <= 1 )
    /\ [][ /\ \A job \in BagToSet(tasks) :
                (job.kind = "toggleInProxy" /\ TakesJob(job, toggleInProxy)) =>
                    /\ conduitStatus = "stopped" =>
                          tasks' = Add(Remove(tasks, job),
                                       [job EXCEPT !.kind = "start",
                                                   !.caller = "toggleInProxy"])
                    /\ conduitStatus = "started" =>
                          \E stop \in BagToSet(tasks') :
                              /\ stop.kind = "stop" /\ stop.pc = "enqueued"
                              /\ tasks' = Add(Remove(tasks, job), stop)
                    /\ conduitStatus \in {"starting", "stopping"} =>
                          tasks' = Remove(tasks, job)
                    /\ UNCHANGED <<conduitStatus, tunnel, activityStats, listener>>
           /\ \A job \in StopJobs :
                (job.pc = "enqueued" /\ TakesJob(job, StopBegin)) => ~StartInProgress
       ]_vars

\* C33: paramsChanged goes on to startConduit only when it reads started
\* (it is a no-op on stopped and stopping and rejected on starting); so in
\* every interleaving with toggleInProxy and stopConduit, a startConduit
\* called by paramsChanged that finds the status stopping or stopped does
\* not start the conduit.
C33_ParamsChangedOnlyRestarts ==
    [][ /\ \A job \in BagToSet(tasks) :
              (job.kind = "paramsChanged" /\ TakesJob(job, paramsChanged)) =>
                  /\ conduitStatus = "started" =>
                        tasks' = Add(Remove(tasks, job),
                                     [job EXCEPT !.kind = "start",
                                                 !.caller = "paramsChanged"])
                  /\ conduitStatus # "started" => tasks' = Remove(tasks, job)
                  /\ UNCHANGED <<conduitStatus, tunnel, activityStats, listener>>
        /\ \A job \in StartJobs :
              ( /\ job.caller = "paramsChanged"
                /\ conduitStatus \in {"stopping", "stopped"}
                /\ StartBeginOf(job) ) => conduitStatus' # "starting"
      ]_vars

----------------------------------------------------------------------------
(* Claims about createOrLoadAccount *)

StoreKeys == {"mnemonic", "accountKey", "deviceNonce", "inproxyKey"}

IsAccount(value) == "mnemonic" \in DOMAIN value

\* The call has ended and returned an Account
AccountReturned ==
    /\ account.pc = "idle"
    /\ account.outcome.kind = "returned"
    /\ IsAccount(account.outcome.value)

C19_NeverThrows ==
    /\ [](account.outcome.kind # "thrown")
    /\ []((account.pc = "idle" /\ account.calls > 0) =>
            /\ account.outcome.kind = "returned"
            /\ \/ IsAccount(account.outcome.value)
               \/ account.outcome.value.error = "Error signing in")
    /\ [][ (account.pc # "idle" /\ account'.pc = "idle"
            /\ ~IsAccount(account'.outcome.value)) =>
              secureStore' = secureStore ]_vars
    /\ [][ \A key \in StoreKeys :
              secureStore[key] # null => secureStore'[key] = secureStore[key] ]_vars
    /\ [](account.pc \in {"accountKey", "deviceNonce", "inproxyKey", "parse"} =>
            account.mnemonic = secureStore.mnemonic)

\* The first call stored a mnemonic and an account key and then failed; the
\* second call has loaded both and is about to derive the inproxy key
C19_Witness ==
    /\ account.calls = 2
    /\ account.first = NoValue
    /\ account.pc = "inproxyKey"
    /\ secureStore.inproxyKey = null
    /\ account.mnemonic = secureStore.mnemonic
    /\ keyPairToBase64nopad(account.accountKey) = secureStore.accountKey

----------------------------------------------------------------------------
(* Claims about the storage migrations *)

\* C20: version0To1 reads the stored limit; with nothing stored it writes
\* nothing, and a stored limit of k * 1024 * 1024 it rewrites to
\* k * 1000 * 1000 (20 * 1024 * 1024 to 20 * 1000 * 1000); applyMigrations
\* returns CURRENT_STORAGE_VERSION.
C20_Migration0To1 ==
    [][ /\ version0To1 =>
              /\ "inProxyLimitBytesPerSecond" \in migration'.getItemKeys
              /\ asyncStorage.inProxyLimitBytesPerSecond = null =>
                    /\ migration'.setItemCalls = 0
                    /\ asyncStorage' = asyncStorage
              /\ \A k \in 1..MaxLimitMiB :
                    asyncStorage.inProxyLimitBytesPerSecond = ToString(k * 1024 * 1024) =>
                        /\ migration'.setItemCalls = 1
                        /\ asyncStorage'.inProxyLimitBytesPerSecond =
                              ToString(k * 1000 * 1000)
              /\ asyncStorage.inProxyLimitBytesPerSecond = "20971520" =>
                    asyncStorage'.inProxyLimitBytesPerSecond = "20000000"
        /\ applyMigrationsEnd =>
              /\ migration'.result = CURRENT_STORAGE_VERSION
              /\ asyncStorage'.storageVersion = ToString(CURRENT_STORAGE_VERSION)
              /\ \A k \in 1..MaxLimitMiB :
                    migration.before.inProxyLimitBytesPerSecond = ToString(k * 1024 * 1024) =>
                        asyncStorage'.inProxyLimitBytesPerSecond =
                            ToString(k * 1000 * 1000)
      ]_vars

\* applyMigrations has returned after rewriting 20 MiB/s to 20 MB/s
C20_Witness ==
    /\ migration.pc = "idle"
    /\ migration.result = CURRENT_STORAGE_VERSION
    /\ migration.before.inProxyLimitBytesPerSecond = "20971520"
    /\ migration.before.storageVersion = null
    /\ asyncStorage.inProxyLimitBytesPerSecond = "20000000"
    /\ asyncStorage.storageVersion = "1"

====
